---- MODULE Spec2Model ----
(***************************************************************************)
(* A model of organizer.py (Bulk File Organizer).                          *)
(*                                                                         *)
(* File names are sequences of one-character strings, paths are sequences  *)
(* of names relative to config["watch_dir"], and the filesystem is a       *)
(* function from the existing paths to nodes.  String operations of the    *)
(* source (str.lower, str.endswith, os.path.splitext, re.search, the       *)
(* f-string of unique_destination, strftime) are computed character by     *)
(* character.                                                              *)
(***************************************************************************)
EXTENDS Integers, Sequences, FiniteSets, TLC

VARIABLES
    fs,       \* the tree under watch_dir: path -> node
    config,   \* the dict returned by load_config, read-only after start-up
    th,       \* one record per thread running move_file (0 is the main thread)
    walk,     \* organize_once: the os.walk generator and the `for f in files` loop
    events,   \* watchdog: creation events not yet dispatched to on_created
    log,      \* records emitted through the logging module, in order
    hist      \* history of the filesystem mutations made by the program

vars == <<fs, config, th, walk, events, log, hist>>

---------------------------------------------------------------------------
(* Characters and strings                                                  *)

Upper == <<"A","B","C","D","E","F","G","H","I","J","K","L","M",
           "N","O","P","Q","R","S","T","U","V","W","X","Y","Z">>
Lowercase == <<"a","b","c","d","e","f","g","h","i","j","k","l","m",
           "n","o","p","q","r","s","t","u","v","w","x","y","z">>

\* str.lower() on one character (ASCII)
LowerChar(c) ==
    IF \E i \in 1..Len(Upper) : Upper[i] = c
    THEN Lowercase[CHOOSE i \in 1..Len(Upper) : Upper[i] = c]
    ELSE c

\* str.lower()
Lower(s) == [i \in 1..Len(s) |-> LowerChar(s[i])]

\* str.endswith(suffix)
EndsWith(s, suffix) ==
    /\ Len(suffix) <= Len(s)
    /\ SubSeq(s, Len(s) - Len(suffix) + 1, Len(s)) = suffix

\* str.startswith(prefix)
StartsWith(s, prefix) ==
    /\ Len(prefix) <= Len(s)
    /\ SubSeq(s, 1, Len(prefix)) = prefix

\* s contains sub as a contiguous substring
Contains(s, sub) ==
    \E i \in 0..(Len(s) - Len(sub)) : SubSeq(s, i + 1, i + Len(sub)) = sub

Digits == <<"0","1","2","3","4","5","6","7","8","9">>

\* str(n) for n >= 0, as the f-string {i} and strftime's numbers print it
RECURSIVE Decimal(_)
Decimal(n) ==
    IF n < 10 THEN <<Digits[n + 1]>>
    ELSE Decimal(n \div 10) \o <<Digits[(n % 10) + 1]>>

\* a number printed zero-padded to two digits (strftime %m)
TwoDigits(n) == IF n < 10 THEN <<"0">> \o Decimal(n) ELSE Decimal(n)

\* os.path.splitext on a file name: the extension starts at the last dot,
\* unless only dots precede it (genericpath._splitext); <<base, ext>>
LastDot(name) ==
    IF \E i \in 1..Len(name) : name[i] = "."
    THEN CHOOSE i \in 1..Len(name) :
            name[i] = "." /\ \A j \in (i + 1)..Len(name) : name[j] # "."
    ELSE 0

Splitext(name) ==
    LET d == LastDot(name) IN
    IF d > 0 /\ \E j \in 1..(d - 1) : name[j] # "."
    THEN <<SubSeq(name, 1, d - 1), SubSeq(name, d, Len(name))>>
    ELSE <<name, <<>>>>

\* re.compile(pattern): the patterns modelled are literals; a pattern holding
\* an opening parenthesis is the malformed one (re.error)
ReCompiles(pattern) == \A i \in 1..Len(pattern) : pattern[i] # "("

\* re.search(pattern, s, re.IGNORECASE) for a literal pattern
ReSearchI(pattern, s) == Contains(Lower(s), Lower(pattern))

\* re.search(pattern, s) for a literal pattern
ReSearch(pattern, s) == Contains(s, pattern)

---------------------------------------------------------------------------
(* Names used by the configurations and the trees of the model             *)

Images   == <<"I","m","a","g","e","s">>
Archives == <<"A","r","c","h","i","v","e","s">>
Pics     == <<"P","i","c","s">>
Invoices == <<"I","n","v">>
Vault    == <<"V">>
Others   == <<"O","t","h","e","r","s">>

ExtJpg   == <<".","j","p","g">>
ExtPng   == <<".","p","n","g">>
ExtZip   == <<".","z","i","p">>
ExtTarGz == <<".","t","a","r",".","g","z">>
ExtTmp   == <<".","t","m","p">>

\* a scaled-down default["file_types"]: an ordered mapping, category -> extensions
DefaultFileTypes ==
    << [folder |-> Images,   exts |-> <<ExtJpg, ExtPng>>],
       [folder |-> Archives, exts |-> <<ExtZip, ExtTarGz>>] >>

\* the dict `default` of load_config, scaled down; the timestamps of the model
\* count months, and "%Y-%m" is the default date_format
DefaultConfig ==
    [ recursive               |-> FALSE,
      file_types              |-> DefaultFileTypes,
      regex_rules             |-> <<>>,
      date_based              |-> TRUE,
      date_field              |-> "mtime",
      date_format             |-> <<"%","Y","-","%","m">>,
      temp_extensions         |-> <<ExtTmp>>,
      exclude_patterns        |-> <<>>,
      dry_run                 |-> FALSE,
      wait_for_stable_seconds |-> 1,
      stable_checks           |-> 2 ]

\* default.update(user): the keys of the user's config.json replace the defaults
LoadConfig(user) == user @@ DefaultConfig

---------------------------------------------------------------------------
(* The pure functions of the move logic                                    *)

\* the mutant of is_temporary that tests the start of the name
IsTemporaryPrefix(filename, cfg) ==
    LET lower == Lower(filename) IN
    \E k \in 1..Len(cfg.temp_extensions) : StartsWith(lower, cfg.temp_extensions[k])

\* is_temporary(filename, config)
IsTemporary(filename, cfg) ==
    LET lower == Lower(filename) IN
    \E k \in 1..Len(cfg.temp_extensions) : EndsWith(lower, cfg.temp_extensions[k])

\* one iteration of `for r in config.get("regex_rules", [])`: the rule returns
\* its folder when the pattern compiles and is found, else the loop continues
RuleFires(r, fname) == ReCompiles(r.pattern) /\ ReSearchI(r.pattern, fname)

\* the extension rules: the first category, in mapping order, whose lower-cased
\* extensions hold ext; "Others" when there is none
ExtensionFolder(ext, types) ==
    LET owns(k) == \E e \in 1..Len(types[k].exts) : Lower(types[k].exts[e]) = ext
    IN  IF \E k \in 1..Len(types) : owns(k)
        THEN types[CHOOSE k \in 1..Len(types) :
                      owns(k) /\ \A j \in 1..(k - 1) : ~owns(j)].folder
        ELSE Others

\* the mutant of determine_target_folder that looks at the extension first
DetermineTargetFolderExtFirst(filename, cfg) ==
    LET rules == cfg.regex_rules
        ext   == Lower(Splitext(filename)[2])
        byExt == ExtensionFolder(ext, cfg.file_types)
    IN  IF byExt # Others THEN byExt
        ELSE IF \E k \in 1..Len(rules) : RuleFires(rules[k], filename)
        THEN rules[CHOOSE k \in 1..Len(rules) :
                      /\ RuleFires(rules[k], filename)
                      /\ \A j \in 1..(k - 1) : ~RuleFires(rules[j], filename)].folder
        ELSE Others

\* determine_target_folder(filename, config)
DetermineTargetFolder(filename, cfg) ==
    LET rules == cfg.regex_rules
        ext   == Lower(Splitext(filename)[2])
    IN  IF \E k \in 1..Len(rules) : RuleFires(rules[k], filename)
        THEN rules[CHOOSE k \in 1..Len(rules) :
                      /\ RuleFires(rules[k], filename)
                      /\ \A j \in 1..(k - 1) : ~RuleFires(rules[j], filename)].folder
        ELSE ExtensionFolder(ext, cfg.file_types)

\* datetime.fromtimestamp(ts).strftime(fmt); ts counts months from January
\* 2024, and the directives modelled are %Y and %m
RECURSIVE Strftime(_, _)
Strftime(fmt, ts) ==
    IF fmt = <<>> THEN <<>>
    ELSE IF Len(fmt) >= 2 /\ fmt[1] = "%" /\ fmt[2] = "Y"
    THEN Decimal(2024 + (ts \div 12)) \o Strftime(SubSeq(fmt, 3, Len(fmt)), ts)
    ELSE IF Len(fmt) >= 2 /\ fmt[1] = "%" /\ fmt[2] = "m"
    THEN TwoDigits((ts % 12) + 1) \o Strftime(SubSeq(fmt, 3, Len(fmt)), ts)
    ELSE <<fmt[1]>> \o Strftime(Tail(fmt), ts)

---------------------------------------------------------------------------
(* The filesystem under watch_dir                                          *)

DirNode  == [kind |-> "dir", id |-> 0, size |-> 0, mtime |-> 0, ctime |-> 0,
             writable |-> TRUE]
RoDirNode == [DirNode EXCEPT !.writable = FALSE]
FileNode(id, size, mtime, ctime) ==
    [kind |-> "file", id |-> id, size |-> size, mtime |-> mtime,
     ctime |-> ctime, writable |-> TRUE]
\* a FIFO or a socket: os.walk lists it with the files, os.path.isfile is False
SpecialNode(id) == [FileNode(id, 0, 0, 0) EXCEPT !.kind = "special"]

Exists(f, p) == p \in DOMAIN f                        \* os.path.exists
IsFile(f, p) == p \in DOMAIN f /\ f[p].kind = "file"   \* os.path.isfile
IsDir(f, p)  == p \in DOMAIN f /\ f[p].kind = "dir"    \* os.path.isdir

Basename(p) == p[Len(p)]                    \* os.path.basename
Dirname(p)  == SubSeq(p, 1, Len(p) - 1)     \* os.path.dirname
Join(dir, name) == Append(dir, name)        \* os.path.join(dir, name)
Prefixes(p) == {SubSeq(p, 1, k) : k \in 0..Len(p)}

\* the entries of directory d (os.scandir)
Children(f, d) == {p \in DOMAIN f : Len(p) = Len(d) + 1 /\ Dirname(p) = d}

\* f with the entry at path p removed / set to node n
Without(f, p) == [q \in DOMAIN f \ {p} |-> f[q]]
With(f, p, n) == [q \in DOMAIN f \cup {p} |-> IF q = p THEN n ELSE f[q]]

\* the ids of the regular and special files of f
FileIds(f) == {f[p].id : p \in {q \in DOMAIN f : f[q].kind # "dir"}}

---------------------------------------------------------------------------
(* Threads running move_file, and the state the other parts start from     *)

MaxWorkers == 2
Threads == 0..MaxWorkers       \* 0: the main thread, 1..: threading.Thread

NoName == <<>>
NoPath == <<>>

IdleThread ==
    [ pc            |-> "idle",
      file_path     |-> NoPath,
      filename      |-> NoName,
      stages        |-> {},       \* the steps of move_file this call reached
      wait_sec      |-> 0,
      checks        |-> 0,
      timeout       |-> 0,
      elapsed       |-> 0,        \* time.time() - start
      stable        |-> 0,
      last_size     |-> 0,
      polls         |-> 0,        \* sleeps (each followed by getsize) so far
      readings      |-> <<>>,     \* what the calls of getsize returned
      ret           |-> FALSE,    \* what wait_until_stable returned
      target_folder |-> NoName,
      date_folder   |-> NoName,
      final_dir     |-> NoPath,
      dst_path      |-> NoPath,   \* the argument of unique_destination
      i             |-> 0,
      destination   |-> NoPath,
      outcome       |-> "none" ]

NoWalk == [pc |-> "off", frames |-> <<>>, top |-> NoPath, dirs |-> {}, files |-> {}]

NoHist == [moves |-> <<>>, lost |-> {}, fs0 |-> <<>>, entry |-> <<>>,
           mkdirs |-> {}, env |-> {}, created |-> 0,
           passes |-> 1, fs1 |-> <<>>, moves1 |-> 0,
           seen |-> {}, fed |-> {}]

\* no watchdog observer is running
NoEvents == [watching |-> FALSE, queue |-> <<>>]

EmptyFs == [p \in {<<>>} |-> DirNode]

---------------------------------------------------------------------------
(* SpecClassify: determine_target_folder as a function of its arguments    *)

RuleInv == [pattern |-> <<"i","n","v">>, folder |-> Invoices]
RuleV   == [pattern |-> <<"v">>, folder |-> Vault]
RuleBad == [pattern |-> <<"(","j">>, folder |-> Vault]

ClassifyConfigs ==
    { LoadConfig([regex_rules |-> rr, file_types |-> ft]) :
        rr \in { <<>>, <<RuleInv>>, <<RuleV, RuleInv>>, <<RuleInv, RuleV>>,
                 <<RuleBad, RuleInv>> },
        ft \in { DefaultFileTypes,
                 <<[folder |-> Pics, exts |-> <<ExtPng, ExtJpg>>]>> \o DefaultFileTypes } }

ClassifyNames ==
    { <<"a",".","j","p","g">>,
      <<"a",".","J","p","G">>,
      <<"I","N","V",".","j","p","g">>,
      <<"i","n","v",".","x">>,
      <<"v",".","z","i","p">>,
      <<"b",".","t","a","r",".","g","z">>,
      <<"b",".","Z","I","P">>,
      <<"b",".","p","n","g",".","x">>,
      <<"n">>,
      <<".","j","p","g">>,
      <<"j","p","g">>,
      <<"a",".","j","p","g",".">> }

InitClassify ==
    /\ fs = EmptyFs
    /\ config \in ClassifyConfigs
    /\ \E name \in ClassifyNames :
          th = [t \in Threads |->
                  IF t = 0 THEN [IdleThread EXCEPT !.pc = "classify_call",
                                                   !.filename = name]
                  ELSE IdleThread]
    /\ walk = NoWalk
    /\ events = NoEvents
    /\ log = <<>>
    /\ hist = NoHist

\* target_folder = determine_target_folder(filename, config)
ClassifyCall ==
    /\ th[0].pc = "classify_call"
    /\ th' = [th EXCEPT ![0].pc = "classified",
                        ![0].target_folder = DetermineTargetFolder(th[0].filename, config)]
    /\ UNCHANGED <<fs, config, walk, events, log, hist>>

NextClassify == ClassifyCall

SpecClassify == InitClassify /\ [][NextClassify]_vars

\* the rules of config that match the file name, by position
MatchingRules(name, cfg) ==
    {k \in 1..Len(cfg.regex_rules) :
        /\ ReCompiles(cfg.regex_rules[k].pattern)
        /\ Contains(Lower(name), Lower(cfg.regex_rules[k].pattern))}

\* the categories of config one of whose extensions the file name ends with,
\* letter case apart, by position
OwningCategories(name, cfg) ==
    {k \in 1..Len(cfg.file_types) :
        \E e \in 1..Len(cfg.file_types[k].exts) :
            EndsWith(Lower(name), Lower(cfg.file_types[k].exts[e]))}

Least(S) == CHOOSE k \in S : \A j \in S : k <= j

\* the names move_file classifies: it returns early on a leading dot
Visible(name) == ~StartsWith(name, <<".">>)

\* C5: a file name that matches a regex rule is filed in the folder of the
\* first matching rule of the configured list, whatever its extension.
C5_RegexPrecedence ==
    (th[0].pc = "classified" /\ MatchingRules(th[0].filename, config) # {})
        => th[0].target_folder =
             config.regex_rules[Least(MatchingRules(th[0].filename, config))].folder

\* a classified name whose extension belongs to a category and whose first
\* matching rule is the second of the list
C5_Witness ==
    /\ th[0].pc = "classified"
    /\ OwningCategories(th[0].filename, config) # {}
    /\ Least(MatchingRules(th[0].filename, config) \cup {9}) = 2
    /\ th[0].target_folder = config.regex_rules[2].folder

\* C6: a file name that ends with a listed extension (multi-dot ones such as
\* .tar.gz included) and matches no regex rule is filed in the first-declared
\* category owning that extension, whatever the letter case in the file name.
C6_ExtensionCategory ==
    (/\ th[0].pc = "classified"
     /\ Visible(th[0].filename)
     /\ MatchingRules(th[0].filename, config) = {}
     /\ OwningCategories(th[0].filename, config) # {})
        => th[0].target_folder =
             config.file_types[Least(OwningCategories(th[0].filename, config))].folder

\* C7: "Others" is returned exactly for the file names that match neither a
\* regex rule nor the extension set of a category.
C7_OthersIffNoMatch ==
    (th[0].pc = "classified" /\ Visible(th[0].filename))
        => (th[0].target_folder = Others
              <=> (/\ MatchingRules(th[0].filename, config) = {}
                   /\ OwningCategories(th[0].filename, config) = {}))

---------------------------------------------------------------------------
(* Logging                                                                 *)

LevelNo(level) ==
    CASE level = "DEBUG" -> 10 [] level = "INFO" -> 20
      [] level = "WARNING" -> 30 [] level = "ERROR" -> 40

\* logging.<level>(...) under setup_logging's basicConfig(level=logging.INFO):
\* the record reaches the handlers when its level is at least INFO
Emit(l, level, what, path) ==
    IF LevelNo(level) >= LevelNo("INFO")
    THEN Append(l, [level |-> level, what |-> what, path |-> path])
    ELSE l

---------------------------------------------------------------------------
(* Filesystem calls made by move_file                                      *)

\* the mutant of DateSubfolder that reads the creation time whatever date_field
DateSubfolderCtime(f, path, cfg) ==
    IF ~cfg.date_based THEN NoName ELSE Strftime(cfg.date_format, f[path].ctime)

\* date_subfolder(file_path, config), for a path that exists
DateSubfolder(f, path, cfg) ==
    IF ~cfg.date_based THEN NoName
    ELSE LET ts == IF cfg.date_field = "ctime" THEN f[path].ctime ELSE f[path].mtime
         IN  Strftime(cfg.date_format, ts)

\* os.makedirs(dir, exist_ok=True) raises: a component is not a directory, or
\* the first missing component would be made in a read-only directory
MissingDirs(f, dir) == {p \in Prefixes(dir) : ~Exists(f, p)}
MakedirsRaises(f, dir) ==
    \/ \E p \in Prefixes(dir) : Exists(f, p) /\ ~IsDir(f, p)
    \/ \E p \in MissingDirs(f, dir) :
          Exists(f, Dirname(p)) /\ ~f[Dirname(p)].writable

\* the tree after a successful os.makedirs(dir, exist_ok=True)
Makedirs(f, dir) ==
    [p \in DOMAIN f \cup Prefixes(dir) |-> IF p \in DOMAIN f THEN f[p] ELSE DirNode]

\* the mutant of ProbeFree that finds every path free
ProbeFreeAlways(f, p) == TRUE

\* `not os.path.exists(p)` of unique_destination
ProbeFree(f, p) == ~Exists(f, p)

\* the mutant of Candidate that leaves the number out
CandidateUnnumbered(dst_path, i) == dst_path

\* the mutant of Candidate that numbers from 2
CandidateFromTwo(dst_path, i) ==
    LET be == Splitext(Basename(dst_path)) IN
    Join(Dirname(dst_path), be[1] \o <<" ", "(">> \o Decimal(i + 1) \o <<")">> \o be[2])

\* f"{base} ({i}){ext}" with base, ext = os.path.splitext(dst_path)
Candidate(dst_path, i) ==
    LET be == Splitext(Basename(dst_path)) IN
    Join(Dirname(dst_path), be[1] \o <<" ", "(">> \o Decimal(i) \o <<")">> \o be[2])

\* os.rename(src, dst) succeeds: both directories exist and are writable, and a
\* regular file is not renamed onto a directory
RenameOk(f, src, dst) ==
    /\ Exists(f, src)
    /\ IsDir(f, Dirname(dst)) /\ f[Dirname(dst)].writable
    /\ f[Dirname(src)].writable
    /\ ~IsDir(f, dst)

\* shutil.move(src, dst): <<raised, tree after, ids of the files replaced>>.
\* A destination that is a directory is moved into; os.rename replaces an
\* existing destination file; when os.rename fails, copy2 then os.unlink
ShutilMove(f, src, dst) ==
    LET real_dst == IF IsDir(f, dst) THEN Join(dst, Basename(src)) ELSE dst
        replaced == IF Exists(f, real_dst) /\ Exists(f, src) /\ real_dst # src
                    THEN {f[real_dst].id} ELSE {}
        copyOk   == /\ Exists(f, src)
                    /\ IsDir(f, Dirname(real_dst))
                    /\ ~IsDir(f, real_dst)
                    /\ (f[Dirname(real_dst)].writable \/ Exists(f, real_dst))
    IN  IF IsDir(f, dst) /\ Exists(f, real_dst)
        THEN <<TRUE, f, {}>>                       \* shutil.Error: already exists
        ELSE IF RenameOk(f, src, real_dst)
        THEN <<FALSE, With(Without(f, src), real_dst, f[src]), replaced>>
        ELSE IF ~copyOk
        THEN <<TRUE, f, {}>>
        ELSE IF f[Dirname(src)].writable
        THEN <<FALSE, With(Without(f, src), real_dst, f[src]), replaced>>
        ELSE <<TRUE, With(f, real_dst, f[src]), replaced>> \* os.unlink raised

---------------------------------------------------------------------------
(* move_file(file_path, config), run by thread t, one action per step      *)

MoveTimeout == 300     \* timeout=300 in move_file's call of wait_until_stable

\* the thread record at the call move_file(path, config)
StartCall(path) == [IdleThread EXCEPT !.pc = "guards", !.file_path = path]

\* the three early returns: not a regular file, hidden, temporary
MoveGuards(t) ==
    /\ th[t].pc = "guards"
    /\ LET path     == th[t].file_path
           filename == Basename(path)
       IN  IF ~IsFile(fs, path)
           THEN /\ th' = [th EXCEPT ![t].pc = "done", ![t].outcome = "not_a_file",
                                    ![t].stages = {"isfile"}]
                /\ log' = log
           ELSE IF StartsWith(filename, <<".">>)
           THEN /\ th' = [th EXCEPT ![t].pc = "done", ![t].outcome = "hidden",
                                    ![t].filename = filename,
                                    ![t].stages = {"isfile", "hidden"}]
                /\ log' = Emit(log, "DEBUG", "hidden", path)
           ELSE IF IsTemporary(filename, config)
           THEN /\ th' = [th EXCEPT ![t].pc = "done", ![t].outcome = "temporary",
                                    ![t].filename = filename,
                                    ![t].stages = {"isfile", "hidden", "temporary"}]
                /\ log' = Emit(log, "INFO", "temporary", path)
           ELSE /\ th' = [th EXCEPT ![t].pc = "stable_init",
                                    ![t].filename = filename,
                                    ![t].stages = {"isfile", "hidden", "temporary"},
                                    ![t].wait_sec = config.wait_for_stable_seconds,
                                    ![t].checks = config.stable_checks,
                                    ![t].timeout = MoveTimeout]
                /\ log' = log
    /\ UNCHANGED <<fs, config, walk, events, hist>>

\* the mutant of AfterWait that goes on to classify whatever was returned
AfterWaitGoesOn(r, ret) == [r EXCEPT !.pc = "resolve", !.ret = ret]

\* what follows `return False` / `return stable >= checks` of wait_until_stable
\* in move_file: skip with a warning, or go on to classify
AfterWait(r, ret) ==
    IF ret THEN [r EXCEPT !.pc = "resolve", !.ret = TRUE]
    ELSE [r EXCEPT !.pc = "done", !.ret = FALSE, !.outcome = "unstable"]

LogAfterWait(l, ret, path) ==
    IF ret THEN l ELSE Emit(l, "WARNING", "unstable", path)

\* wait_until_stable up to the loop: start, stable = 0, the first getsize
StableInit(t) ==
    /\ th[t].pc = "stable_init"
    /\ LET path == th[t].file_path
           r    == [th[t] EXCEPT !.stages = @ \cup {"stable"}, !.elapsed = 0,
                                  !.stable = 0, !.polls = 0]
       IN  IF Exists(fs, path)
           THEN /\ th' = [th EXCEPT ![t] = [r EXCEPT !.pc = "stable_loop",
                                                     !.last_size = fs[path].size,
                                                     !.readings = <<fs[path].size>>]]
                /\ log' = log
           ELSE /\ th' = [th EXCEPT ![t] = AfterWait(r, FALSE)]
                /\ log' = LogAfterWait(log, FALSE, path)
    /\ UNCHANGED <<fs, config, walk, events, hist>>

\* the mutant of LoopGoesOn that forgets the timeout
LoopGoesOnNoTimeout(r) == r.stable < r.checks

\* the mutant of LoopGoesOn that polls once more
LoopGoesOnOnceMore(r) == r.elapsed < r.timeout /\ r.stable <= r.checks

\* the loop test of wait_until_stable
LoopGoesOn(r) == r.elapsed < r.timeout /\ r.stable < r.checks

\* one iteration: sleep wait_sec (late is the time the iteration takes beyond
\* wait_sec), getsize, compare
StablePoll(t, late) ==
    /\ th[t].pc = "stable_loop"
    /\ LoopGoesOn(th[t])
    /\ LET path == th[t].file_path
           r    == [th[t] EXCEPT !.elapsed = @ + th[t].wait_sec + late,
                                  !.polls = @ + 1]
       IN  IF ~Exists(fs, path)
           THEN /\ th' = [th EXCEPT ![t] = AfterWait(r, FALSE)]
                /\ log' = LogAfterWait(log, FALSE, path)
           ELSE /\ th' = [th EXCEPT ![t] =
                            IF fs[path].size = r.last_size
                            THEN [r EXCEPT !.stable = @ + 1,
                                           !.readings = Append(@, fs[path].size)]
                            ELSE [r EXCEPT !.stable = 0, !.last_size = fs[path].size,
                                           !.readings = Append(@, fs[path].size)]]
                /\ log' = log
    /\ UNCHANGED <<fs, config, walk, events, hist>>

\* the loop ends: return stable >= checks
StableReturn(t) ==
    /\ th[t].pc = "stable_loop"
    /\ ~LoopGoesOn(th[t])
    /\ th' = [th EXCEPT ![t] = AfterWait(th[t], th[t].stable >= th[t].checks)]
    /\ log' = LogAfterWait(log, th[t].stable >= th[t].checks, th[t].file_path)
    /\ UNCHANGED <<fs, config, walk, events, hist>>

\* target_folder, date_folder, final_dir; os.path.getmtime raises when the file
\* is gone, and nothing in move_file catches it
Resolve(t) ==
    /\ th[t].pc = "resolve"
    /\ LET path   == th[t].file_path
           target == DetermineTargetFolder(th[t].filename, config)
           r      == [th[t] EXCEPT !.stages = @ \cup {"classify"},
                                    !.target_folder = target]
       IN  IF config.date_based /\ ~Exists(fs, path)
           THEN th' = [th EXCEPT ![t] = [r EXCEPT !.pc = "raised", !.outcome = "raised"]]
           ELSE LET date == DateSubfolder(fs, path, config)
                    dir  == IF date # NoName THEN <<target, date>> ELSE <<target>>
                IN  th' = [th EXCEPT ![t] = [r EXCEPT !.pc = "makedirs",
                                                      !.date_folder = date,
                                                      !.final_dir = dir]]
    /\ UNCHANGED <<fs, config, walk, events, log, hist>>

\* observer.schedule(handler, watch_dir, recursive=...): the paths whose
\* creation the running observer reports
Watched(p) == events.watching /\ (config.recursive \/ Len(p) = 1)

\* the creation events of the directories os.makedirs(dir) makes in f
DirCreated(f, dir) ==
    LET made(k) == ~Exists(f, SubSeq(dir, 1, k)) /\ Watched(SubSeq(dir, 1, k))
        all == [k \in 1..Len(dir) |-> k]
    IN  [j \in 1..Len(SelectSeq(all, made)) |->
           [src_path |-> SubSeq(dir, 1, SelectSeq(all, made)[j]), is_directory |-> TRUE]]

\* os.makedirs(final_dir, exist_ok=True), outside the try of move_file, and
\* destination = os.path.join(final_dir, filename)
MakeDirs(t) ==
    /\ th[t].pc = "makedirs"
    /\ LET dir == th[t].final_dir
           r   == [th[t] EXCEPT !.stages = @ \cup {"makedirs"}]
       IN  IF MakedirsRaises(fs, dir)
           THEN /\ th' = [th EXCEPT ![t] = [r EXCEPT !.pc = "raised", !.outcome = "raised"]]
                /\ UNCHANGED <<fs, hist, events>>
           ELSE /\ th' = [th EXCEPT ![t] = [r EXCEPT !.pc = "probe_first",
                                                     !.dst_path = Join(dir, th[t].filename)]]
                /\ fs' = Makedirs(fs, dir)
                /\ hist' = [hist EXCEPT !.mkdirs = @ \cup MissingDirs(fs, dir)]
                /\ events' = [events EXCEPT !.queue = @ \o DirCreated(fs, dir)]
    /\ UNCHANGED <<config, walk, log>>

\* unique_destination: the first test, then base, ext and i = 1
ProbeFirst(t) ==
    /\ th[t].pc = "probe_first"
    /\ th' = [th EXCEPT ![t] =
                IF ProbeFree(fs, th[t].dst_path)
                THEN [th[t] EXCEPT !.pc = "dispatch", !.stages = @ \cup {"probe"},
                                   !.destination = th[t].dst_path]
                ELSE [th[t] EXCEPT !.pc = "probe_next", !.stages = @ \cup {"probe"},
                                   !.i = 1]]
    /\ UNCHANGED <<fs, config, walk, events, log, hist>>

\* unique_destination: one iteration of `while True`
ProbeNext(t) ==
    /\ th[t].pc = "probe_next"
    /\ LET candidate == Candidate(th[t].dst_path, th[t].i)
       IN  th' = [th EXCEPT ![t] =
                    IF ProbeFree(fs, candidate)
                    THEN [th[t] EXCEPT !.pc = "dispatch", !.destination = candidate]
                    ELSE [th[t] EXCEPT !.i = @ + 1]]
    /\ UNCHANGED <<fs, config, walk, events, log, hist>>

\* the dry-run branch
DryRun(t) ==
    /\ th[t].pc = "dispatch"
    /\ config.dry_run
    /\ th' = [th EXCEPT ![t].pc = "done", ![t].outcome = "dry_run",
                        ![t].stages = @ \cup {"dry_run"}]
    /\ log' = Emit(log, "INFO", "dry_run", th[t].file_path)
    /\ UNCHANGED <<fs, config, walk, events, hist>>

\* the try: shutil.move, "Moved" or "Failed to move"
Move(t) ==
    /\ th[t].pc = "dispatch"
    /\ ~config.dry_run
    /\ LET src == th[t].file_path
           dst == th[t].destination
           res == ShutilMove(fs, src, dst)
       IN  /\ fs' = res[2]
           /\ th' = [th EXCEPT ![t].pc = "done",
                               ![t].outcome = IF res[1] THEN "failed" ELSE "moved",
                               ![t].stages = @ \cup {"move"}]
           /\ log' = IF res[1] THEN Emit(log, "ERROR", "failed", src)
                     ELSE Emit(log, "INFO", "moved", src)
           /\ hist' = [hist EXCEPT
                         !.moves = Append(@, [src |-> src, dst_path |-> th[t].dst_path,
                                              dst |-> dst, raised |-> res[1],
                                              existed |-> Exists(fs, dst),
                                              id |-> IF Exists(fs, src) THEN fs[src].id
                                                     ELSE 0]),
                         !.lost = @ \cup res[3]]
    /\ UNCHANGED <<config, walk, events>>

\* the steps of move_file in thread t, sleeping exactly wait_sec per poll
MoveFileStep(t) ==
    \/ MoveGuards(t)
    \/ StableInit(t)
    \/ StablePoll(t, 0)
    \/ StableReturn(t)
    \/ Resolve(t)
    \/ MakeDirs(t)
    \/ ProbeFirst(t)
    \/ ProbeNext(t)
    \/ DryRun(t)
    \/ Move(t)

---------------------------------------------------------------------------
(* organize_once(config): os.walk and the loop over the files it yields    *)

\* config.get("file_types", {}) as the set of its keys
CategoryNames(cfg) == {cfg.file_types[k].folder : k \in 1..Len(cfg.file_types)}

\* the mutant of InOrganizedFolder that looks one level down only
InOrganizedFolderDirect(path, cfg) == Len(path) = 2 /\ path[1] \in CategoryNames(cfg)

\* `os.path.sep in rel and rel.split(os.path.sep)[0] in file_types`, for a path
\* relative to watch_dir
InOrganizedFolder(path, cfg) == Len(path) >= 2 /\ path[1] \in CategoryNames(cfg)

\* the thread that runs organize_once is free to take the next file
MainIdle == th[0].pc \in {"idle", "done"}

\* logging.info("Running one-time organization ..."), os.walk(watch_dir)
OrganizeOnceStart ==
    /\ walk.pc = "start"
    /\ walk' = [walk EXCEPT !.pc = "next_dir", !.frames = << {<<>>} >>]
    /\ log' = Emit(log, "INFO", "start", <<>>)
    /\ UNCHANGED <<fs, config, th, events, hist>>

\* os.walk takes the next directory off its stack (the siblings in the order
\* scandir gave them, which is any order) and lists it; a directory that can
\* no longer be listed is passed over
WalkList ==
    /\ walk.pc = "next_dir"
    /\ \E d \in walk.frames[Len(walk.frames)] :
          LET rest   == walk.frames[Len(walk.frames)] \ {d}
              below  == SubSeq(walk.frames, 1, Len(walk.frames) - 1)
              frames == IF rest = {} THEN below ELSE Append(below, rest)
              listed == {q \in Children(fs, d) : ~IsDir(fs, q)}
          IN  IF IsDir(fs, d)
              THEN /\ walk' = [pc |-> "files", frames |-> frames, top |-> d,
                               dirs  |-> {p \in Children(fs, d) : IsDir(fs, p)},
                               files |-> {Basename(p) : p \in listed}]
                   /\ hist' = [hist EXCEPT !.seen = @ \cup
                                {[path |-> q, regular |-> IsFile(fs, q)] : q \in listed}]
              ELSE /\ walk' = [walk EXCEPT !.frames = frames,
                                           !.pc = IF frames = <<>> THEN "done"
                                                  ELSE "next_dir"]
                   /\ hist' = hist
    /\ UNCHANGED <<fs, config, th, events, log>>

\* `for f in files`: a file inside a top-level category folder is passed over
WalkSkip ==
    /\ walk.pc = "files"
    /\ MainIdle
    /\ \E f \in walk.files :
          /\ InOrganizedFolder(Join(walk.top, f), config)
          /\ walk' = [walk EXCEPT !.files = @ \ {f}]
    /\ UNCHANGED <<fs, config, th, events, log, hist>>

\* `for f in files`: move_file(path, config) is called
WalkCall ==
    /\ walk.pc = "files"
    /\ MainIdle
    /\ \E f \in walk.files :
          /\ ~InOrganizedFolder(Join(walk.top, f), config)
          /\ walk' = [walk EXCEPT !.files = @ \ {f}]
          /\ th' = [th EXCEPT ![0] = StartCall(Join(walk.top, f))]
          /\ hist' = [hist EXCEPT !.entry = fs, !.fed = @ \cup {Join(walk.top, f)}]
    /\ UNCHANGED <<fs, config, events, log>>

\* the files of the directory are done: break unless recursive, else os.walk
\* pushes the sub-directories it listed
WalkEndDir ==
    /\ walk.pc = "files"
    /\ MainIdle
    /\ walk.files = {}
    /\ LET frames == IF walk.dirs = {} THEN walk.frames
                     ELSE Append(walk.frames, walk.dirs)
       IN  walk' = [walk EXCEPT
                      !.frames = frames,
                      !.pc = IF ~config.recursive \/ frames = <<>> THEN "done"
                             ELSE "next_dir"]
    /\ UNCHANGED <<fs, config, th, events, log, hist>>

\* an exception raised inside move_file leaves organize_once and main()
WalkAbort ==
    /\ walk.pc = "files"
    /\ th[0].pc = "raised"
    /\ walk' = [walk EXCEPT !.pc = "aborted"]
    /\ UNCHANGED <<fs, config, th, events, log, hist>>

---------------------------------------------------------------------------
(* Spec: one batch pass (python organizer.py --once) over a small tree     *)

NameA      == <<"a",".","j","p","g">>
NameTmp    == <<"b",".","t","m","p">>
NameHidden == <<".","h",".","t","m","p">>
NameFifo   == <<"p",".","t","m","p">>
NameN      == <<"n",".","x">>
SubS       == <<"s">>
SubT       == <<"t">>

\* what the trees of the model are made of
Pool ==
    { [path |-> <<NameA>>,          node |-> FileNode(1, 0, 2, 1)],
      [path |-> <<SubS, NameA>>,    node |-> FileNode(2, 0, 2, 1)],
      [path |-> <<Images, NameA>>,  node |-> FileNode(3, 0, 2, 1)],
      [path |-> <<NameTmp>>,        node |-> FileNode(4, 0, 2, 1)],
      [path |-> <<NameHidden>>,     node |-> FileNode(5, 0, 2, 1)],
      [path |-> <<NameFifo>>,       node |-> SpecialNode(6)],
      [path |-> <<Others, NameN>>,  node |-> FileNode(7, 0, 2, 1)],
      [path |-> <<NameN>>,          node |-> FileNode(8, 0, 2, 1)],
      [path |-> <<Images>>,         node |-> RoDirNode],
      [path |-> <<SubT, NameA>>,    node |-> FileNode(9, 0, 2, 1)],
      [path |-> <<Images, SubS, NameA>>, node |-> FileNode(11, 0, 2, 1)] }

MaxFiles == 3     \* entries of Pool in a tree

\* the tree holding the entries S, and the directories above them
Tree(S) ==
    LET paths == UNION {Prefixes(e.path) : e \in S} \cup {<<>>}
    IN  [p \in paths |->
           IF \E e \in S : e.path = p THEN (CHOOSE e \in S : e.path = p).node
           ELSE DirNode]

BatchConfigs ==
    { LoadConfig([recursive |-> r, dry_run |-> d, date_based |-> b,
                  wait_for_stable_seconds |-> w[1], stable_checks |-> w[2]]) :
        r \in BOOLEAN, d \in BOOLEAN, b \in BOOLEAN,
        w \in {<<1, 2>>, <<200, 3>>} }

Init ==
    /\ \E S \in SUBSET Pool :
          /\ Cardinality(S) <= MaxFiles
          /\ fs = Tree(S)
    /\ config \in BatchConfigs
    /\ th = [t \in Threads |-> IdleThread]
    /\ walk = [NoWalk EXCEPT !.pc = "start"]
    /\ events = NoEvents
    /\ log = <<>>
    /\ hist = [NoHist EXCEPT !.fs0 = fs, !.entry = fs]

Next ==
    \/ OrganizeOnceStart
    \/ WalkList
    \/ WalkSkip
    \/ WalkCall
    \/ WalkEndDir
    \/ WalkAbort
    \/ MoveFileStep(0)

Spec == Init /\ [][Next]_vars

---------------------------------------------------------------------------
(* Properties of the batch pass                                            *)

MoveIndices == 1..Len(hist.moves)

\* C1: in a batch pass the destination handed to shutil.move never exists at
\* the moment of the move, no file is replaced, and every file of the initial
\* tree is still in the tree.
C1_BatchNeverOverwrites ==
    /\ \A k \in MoveIndices : ~hist.moves[k].existed
    /\ hist.lost = {}
    /\ FileIds(hist.fs0) \subseteq FileIds(fs)

\* the pass has ended after a move whose destination had to be numbered
C1_Witness ==
    /\ walk.pc = "done"
    /\ \E k \in MoveIndices :
          /\ ~hist.moves[k].raised
          /\ hist.moves[k].dst # hist.moves[k].dst_path
          /\ IsFile(fs, hist.moves[k].dst)
          /\ IsFile(fs, hist.moves[k].dst_path)

\* "base (n)ext" for the file name of path: base is the name up to its last
\* dot and ext the rest (the whole name when it has no dot past its start)
Numbered(path, n) ==
    LET name == path[Len(path)]
        dots == {k \in 2..Len(name) : name[k] = "."}
        cut  == IF dots = {} THEN Len(name) + 1
                ELSE CHOOSE k \in dots : \A j \in dots : j <= k
        num  == IF n < 10 THEN <<Digits[n + 1]>>
                ELSE <<Digits[(n \div 10) + 1], Digits[(n % 10) + 1]>>
    IN  SubSeq(path, 1, Len(path) - 1)
          \o << SubSeq(name, 1, cut - 1) \o <<" ", "(">> \o num \o <<")">>
                  \o SubSeq(name, cut, Len(name)) >>

\* the given path and its numbered variants
Family(path) == {path} \cup {Numbered(path, n) : n \in 1..(Len(hist.moves) + 1)}

\* the moves that asked for path, in order
MovesTo(path) ==
    LET asked(m) == m.dst_path = path IN SelectSeq(hist.moves, asked)

\* nothing but the moves that asked for path has touched its family
Undisturbed(path) ==
    /\ Family(path) \cap DOMAIN hist.fs0 = {}
    /\ \A k \in MoveIndices :
          /\ hist.moves[k].src \notin Family(path)
          /\ hist.moves[k].dst \in Family(path) =>
                (hist.moves[k].dst_path = path /\ ~hist.moves[k].raised)

\* C3: unique_destination returns a path that does not exist: the given path
\* when it is free, else "base (n)ext" for the least n >= 1 that is free; so
\* the files filed one after another under one name in one folder end at
\* name, name (1), name (2), ... in that order.
C3_UniqueDestination ==
    /\ th[0].pc = "dispatch" =>
          /\ ~Exists(fs, th[0].destination)
          /\ IF ~Exists(fs, th[0].dst_path)
             THEN th[0].destination = th[0].dst_path
             ELSE \E n \in 1..Cardinality(DOMAIN fs) :
                     /\ th[0].destination = Numbered(th[0].dst_path, n)
                     /\ \A k \in 1..(n - 1) : Exists(fs, Numbered(th[0].dst_path, k))
    /\ \A k \in MoveIndices :
          LET path == hist.moves[k].dst_path IN
          Undisturbed(path) =>
             \A j \in 1..Len(MovesTo(path)) :
                MovesTo(path)[j].dst = IF j = 1 THEN path ELSE Numbered(path, j - 1)

\* two files were filed under one name in a folder that held neither, and
\* unique_destination has returned "base (2)ext" for the third
C3_Witness ==
    /\ th[0].pc = "dispatch"
    /\ th[0].destination = Numbered(th[0].dst_path, 2)
    /\ Undisturbed(th[0].dst_path)
    /\ Len(MovesTo(th[0].dst_path)) = 2

\* C8: with dry_run, a call of move_file leaves the files and the directories
\* under the watch root as they were.
C8_DryRunLeavesTreeAlone ==
    (th[0].pc = "done" /\ th[0].outcome = "dry_run") => fs = hist.entry

\* the file name ends, letter case apart, with a configured temporary extension
CarriesTempExtension(name, cfg) ==
    \E k \in 1..Len(cfg.temp_extensions) :
       LET ext == cfg.temp_extensions[k] IN
       /\ Len(name) >= Len(ext)
       /\ \A j \in 1..Len(ext) : LowerChar(name[Len(name) - Len(ext) + j]) = ext[j]

LaterStages == {"stable", "classify", "makedirs", "probe", "dry_run", "move"}

\* C9: the guards of move_file run in the order not-a-file, hidden, temporary,
\* stability; the first that fires ends the call with the tree unchanged, and
\* a regular, visible file with a temporary extension is skipped as temporary
\* before the stability check, classification, makedirs and the move.
C9_GuardOrder ==
    LET path == th[0].file_path
        name == path[Len(path)]
        was  == hist.entry
    IN  th[0].pc \notin {"idle", "guards"} =>
          /\ ~IsFile(was, path) => th[0].outcome = "not_a_file"
          /\ (IsFile(was, path) /\ name[1] = ".") => th[0].outcome = "hidden"
          /\ (IsFile(was, path) /\ name[1] # "." /\ CarriesTempExtension(name, config))
                => th[0].outcome = "temporary"
          /\ th[0].outcome \in {"not_a_file", "hidden", "temporary"}
                => (th[0].pc = "done" /\ th[0].stages \cap LaterStages = {} /\ fs = was)
          /\ th[0].outcome = "unstable"
                => (/\ th[0].pc = "done" /\ fs = was
                    /\ th[0].stages \cap LaterStages = {"stable"})
          /\ (th[0].stages \cap LaterStages # {})
                => (/\ IsFile(was, path) /\ name[1] # "."
                    /\ ~CarriesTempExtension(name, config))

\* a file with a temporary extension was skipped, after a file was moved
C9_Witness ==
    /\ th[0].pc = "done"
    /\ th[0].outcome = "temporary"
    /\ hist.moves # <<>>

\* C10: a failure on one candidate (in the move, in makedirs, in the timestamp
\* read) is a Failed outcome of that candidate and never ends the batch pass.
C10_FailureNeverAborts ==
    /\ th[0].pc # "raised"
    /\ walk.pc # "aborted"

\* the outcomes of move_file that leave the file where it was
SkippedOrFailed == {"not_a_file", "hidden", "temporary", "unstable", "failed"}

\* the records the handlers received about path
Logged(path) == {k \in 1..Len(log) : log[k].path = path}

\* C11: a call of move_file that ends without moving the file (not a regular
\* file, hidden, temporary, unstable, move failure) has put at least one
\* record about the file into the log at the INFO level or above.
C11_NoSilentSkip ==
    (th[0].pc = "done" /\ th[0].outcome \in SkippedOrFailed)
       => Logged(th[0].file_path) # {}

\* "2024-03", what %Y-%m makes of the modification time of the files of Pool
Label202403 == <<"2","0","2","4","-","0","3">>

\* C16: after a successful move of a stable regular file (no dry run) the
\* file is gone from its source path and is at category/filename, or at
\* category/label/filename with date partitioning, numbered when that name
\* was taken; category is determine_target_folder(filename) and label the
\* configured timestamp of the file in the configured format.
C16_MovedToCategoryFolder ==
    (th[0].pc = "done" /\ th[0].outcome = "moved") =>
       LET m        == hist.moves[Len(hist.moves)]
           name     == m.src[Len(m.src)]
           category == DetermineTargetFolder(name, config)
       IN  /\ ~Exists(fs, m.src)
           /\ IsFile(fs, m.dst)
           /\ fs[m.dst].id = m.id
           /\ IsFile(hist.entry, m.src) /\ hist.entry[m.src].id = m.id
           /\ LET stamp    == IF config.date_field = "ctime" THEN fs[m.dst].ctime
                              ELSE fs[m.dst].mtime
                  expected == IF config.date_based
                              THEN <<category, Strftime(config.date_format, stamp), name>>
                              ELSE <<category, name>>
              IN  /\ m.dst \in Family(expected)
                  /\ m.dst # expected => Exists(hist.entry, expected)

\* a.jpg, last modified in March 2024, ended at Images/2024-03/a.jpg
C16_Witness ==
    /\ th[0].pc = "done" /\ th[0].outcome = "moved"
    /\ hist.moves[Len(hist.moves)].src = <<NameA>>
    /\ hist.moves[Len(hist.moves)].dst = <<Images, Label202403, NameA>>
    /\ IsFile(fs, <<Images, Label202403, NameA>>)
    /\ ~Exists(fs, <<NameA>>)

\* the entries the walk listed whose relative path does not start with a
\* category folder
Eligible == {e \in hist.seen :
               ~(Len(e.path) >= 2 /\ e.path[1] \in CategoryNames(config))}

\* the entries of the initial tree that are not directories
FilesAtStart == {p \in DOMAIN hist.fs0 : ~IsDir(hist.fs0, p)}

\* what the walk lists: only the watch root unless recursive, and by its end
\* every entry it was to find
WalkReach ==
    /\ ~config.recursive => \A e \in hist.seen : Len(e.path) = 1
    /\ walk.pc = "done" =>
          \A p \in FilesAtStart :
             (config.recursive \/ Len(p) = 1) => \E e \in hist.seen : e.path = p

\* C19 as amended: the batch scan calls move_file for exactly the
\* non-directory entries found by the walk whose path relative to the watch
\* root does not lie, at any depth, under a top-level directory named like a
\* configured category; without recursive only the entries of the watch root
\* are found.
C19_CandidatesOfThePass ==
    /\ hist.fed \subseteq {e.path : e \in Eligible}
    /\ walk.pc = "done" => hist.fed = {e.path : e \in Eligible}
    /\ WalkReach

\* a recursive pass ended that skipped a file two levels below Images and
\* called move_file for a file in another sub-directory
C19_Witness ==
    /\ walk.pc = "done" /\ config.recursive
    /\ [path |-> <<Images, SubS, NameA>>, regular |-> TRUE] \in hist.seen
    /\ <<Images, SubS, NameA>> \notin hist.fed
    /\ <<SubS, NameA>> \in hist.fed

\* C19: the batch scan calls move_file for exactly the regular files found
\* by the walk that do not sit directly under a top-level category directory.
C19_RegularFilesNotDirectlyUnder ==
    /\ walk.pc = "done" =>
          hist.fed = {e.path : e \in
                        {x \in hist.seen :
                           /\ x.regular
                           /\ ~(Len(x.path) = 2 /\ x.path[1] \in CategoryNames(config))}}
    /\ WalkReach

\* C20: in one batch pass every file is moved at most once: no two successful
\* moves of the pass are moves of the same file.
C20_MovedAtMostOnce ==
    \A j, k \in MoveIndices :
       (j < k /\ ~hist.moves[j].raised /\ ~hist.moves[k].raised)
          => hist.moves[j].id # hist.moves[k].id

---------------------------------------------------------------------------
(* SpecRerun: python organizer.py --once, run a second time with the same  *)
(* configuration over the tree the first run left                          *)

NameInv == <<"i","n","v",".","x">>

RerunPool ==
    { [path |-> <<NameA>>,          node |-> FileNode(1, 0, 2, 1)],
      [path |-> <<SubS, NameA>>,    node |-> FileNode(2, 0, 2, 1)],
      [path |-> <<Images, NameA>>,  node |-> FileNode(3, 0, 2, 1)],
      [path |-> <<NameN>>,          node |-> FileNode(8, 0, 2, 1)],
      [path |-> <<NameInv>>,        node |-> FileNode(10, 0, 2, 1)],
      [path |-> <<Images>>,         node |-> RoDirNode] }

RerunConfigs ==
    { LoadConfig([recursive |-> r, dry_run |-> d, date_based |-> b,
                  regex_rules |-> x, stable_checks |-> 1]) :
        r \in BOOLEAN, d \in BOOLEAN, b \in BOOLEAN, x \in {<<>>, <<RuleInv>>} }

InitRerun ==
    /\ \E S \in SUBSET RerunPool :
          /\ Cardinality(S) <= MaxFiles
          /\ fs = Tree(S)
    /\ config \in RerunConfigs
    /\ th = [t \in Threads |-> IdleThread]
    /\ walk = [NoWalk EXCEPT !.pc = "start"]
    /\ events = NoEvents
    /\ log = <<>>
    /\ hist = [NoHist EXCEPT !.fs0 = fs, !.entry = fs]

\* main() once more: the first pass ran to its end, organize_once starts again
OrganizeAgain ==
    /\ walk.pc = "done"
    /\ hist.passes = 1
    /\ walk' = [NoWalk EXCEPT !.pc = "start"]
    /\ th' = [th EXCEPT ![0] = IdleThread]
    /\ hist' = [hist EXCEPT !.passes = 2, !.fs1 = fs, !.moves1 = Len(hist.moves),
                             !.seen = {}, !.fed = {}]
    /\ UNCHANGED <<fs, config, events, log>>

NextRerun ==
    \/ OrganizeOnceStart
    \/ WalkList
    \/ WalkSkip
    \/ WalkCall
    \/ WalkEndDir
    \/ WalkAbort
    \/ MoveFileStep(0)
    \/ OrganizeAgain

SpecRerun == InitRerun /\ [][NextRerun]_vars

\* C12: a second batch pass with the same configuration moves or renames no
\* file: the tree during and after the second pass is the tree the first
\* pass left.
C12_SecondPassChangesNothing ==
    hist.passes = 2 => fs = hist.fs1

---------------------------------------------------------------------------
(* What other processes do to the tree while the program runs              *)

MaxSize == 2      \* the size a file being written grows to

\* a writer appends to the file at path p
EnvWrite(p) ==
    /\ IsFile(fs, p)
    /\ fs[p].size < MaxSize
    /\ fs' = [fs EXCEPT ![p].size = @ + 1]
    /\ hist' = [hist EXCEPT !.env = @ \cup {[what |-> "write", path |-> p,
                                             pc |-> th[0].pc, stable |-> th[0].stable]}]
    /\ UNCHANGED <<config, th, walk, events, log>>

MaxDeletes == 1   \* removals by other processes during a run

\* the file at path p is removed
EnvDelete(p) ==
    /\ Cardinality({e \in hist.env : e.what = "delete"}) < MaxDeletes
    /\ IsFile(fs, p)
    /\ fs' = Without(fs, p)
    /\ hist' = [hist EXCEPT !.env = @ \cup {[what |-> "delete", path |-> p,
                                             pc |-> th[0].pc, stable |-> th[0].stable]}]
    /\ UNCHANGED <<config, th, walk, events, log>>

---------------------------------------------------------------------------
(* SpecStable: one call wait_until_stable(path, wait_sec, checks, timeout) *)
(* on a file that may be written to or removed during the call             *)

MaxChecks == 3    \* the values of `checks` are 0..MaxChecks
MaxLate   == 30   \* seconds an iteration may take beyond wait_sec

WaitSecs == {1, 40}
Timeouts == {60, MoveTimeout}   \* the default of the signature, and move_file's

StablePath == <<NameA>>

InitStable ==
    /\ \E size \in 0..1 : fs = With(EmptyFs, StablePath, FileNode(1, size, 2, 1))
    /\ config = DefaultConfig
    /\ \E w \in WaitSecs, c \in 0..MaxChecks, to \in Timeouts :
          th = [t \in Threads |->
                  IF t = 0
                  THEN [IdleThread EXCEPT !.pc = "stable_init", !.file_path = StablePath,
                                          !.filename = NameA, !.wait_sec = w,
                                          !.checks = c, !.timeout = to]
                  ELSE IdleThread]
    /\ walk = NoWalk
    /\ events = NoEvents
    /\ log = <<>>
    /\ hist = [NoHist EXCEPT !.fs0 = fs, !.entry = fs]

\* the call is in progress
Waiting == th[0].pc \in {"stable_init", "stable_loop"}

NextStable ==
    \/ StableInit(0)
    \/ \E late \in {0, MaxLate} : StablePoll(0, late)
    \/ StableReturn(0)
    \/ (Waiting /\ EnvWrite(StablePath))
    \/ (Waiting /\ EnvDelete(StablePath))

SpecStable == InitStable /\ [][NextStable]_vars

\* wait_until_stable has returned
Returned == th[0].pc \in {"resolve", "done"}

\* the size of the file was never changed and the file never removed
LeftAlone == hist.env = {}

\* the file was removed while the counter was below `checks`
RemovedEarly ==
    \E e \in hist.env : e.what = "delete" /\ e.stable < th[0].checks

\* C4 as amended: on a file that is left alone, wait_until_stable returns true
\* after exactly `checks` polls unless the timeout elapses before the counter
\* reaches `checks`, in which case it returns false after fewer polls; and it
\* returns false when the file is removed before the counter reaches `checks`.
C4_StableAfterChecksPolls ==
    Returned =>
       /\ (LeftAlone /\ th[0].ret) => th[0].polls = th[0].checks
       /\ (LeftAlone /\ ~th[0].ret) =>
             (th[0].polls < th[0].checks /\ th[0].elapsed >= th[0].timeout)
       /\ RemovedEarly => ~th[0].ret

\* the call returned true on a file left alone, after three polls
C4_Witness ==
    /\ Returned /\ LeftAlone /\ th[0].ret
    /\ th[0].checks = 3 /\ th[0].polls = 3

\* every sleep of the call took exactly wait_sec
OnTime == th[0].elapsed = th[0].polls * th[0].wait_sec

\* C4: on a file that is left alone, wait_until_stable returns true after
\* exactly `checks` polls (here: even when no sleep overruns); it returns
\* false when the file is removed before the counter reaches `checks`.
C4_AlwaysTrueAfterChecksPolls ==
    Returned =>
       /\ (LeftAlone /\ OnTime) => (th[0].ret /\ th[0].polls = th[0].checks)
       /\ RemovedEarly => ~th[0].ret

---------------------------------------------------------------------------
(* SpecStableFair: the call of wait_until_stable keeps running (the thread *)
(* is scheduled, time.sleep returns)                                       *)

WaitStep ==
    \/ StableInit(0)
    \/ \E late \in {0, MaxLate} : StablePoll(0, late)
    \/ StableReturn(0)

SpecStableFair == InitStable /\ [][NextStable]_vars /\ WF_vars(WaitStep)

\* ceil(a / b) for b > 0
CeilDiv(a, b) == (a + b - 1) \div b

\* the file was not removed during the call
NeverRemoved == \A e \in hist.env : e.what # "delete"

\* the polls the call may take, and what it returns when the counter stays
\* below `checks`
TimeoutRule ==
    /\ th[0].polls <= CeilDiv(th[0].timeout, th[0].wait_sec)
    /\ (Returned /\ NeverRemoved /\ th[0].stable < th[0].checks)
          => (~th[0].ret /\ th[0].elapsed >= th[0].timeout)
    /\ (Returned /\ th[0].ret) => th[0].stable >= th[0].checks

\* C18 as amended: wait_until_stable terminates; it takes at most
\* ceil(timeout / wait_sec) polls; on a file that is never removed and whose
\* counter stays below `checks` it returns false, with the timeout elapsed;
\* it never returns true with the counter below `checks`; and it returns
\* false with the counter at `checks` only when `checks` is 0 and the size
\* could not be read at the start.
C18_TerminatesFailsOnTimeout ==
    /\ <>Returned
    /\ [](/\ TimeoutRule
          /\ (Returned /\ ~th[0].ret /\ th[0].stable >= th[0].checks)
                => (th[0].checks = 0 /\ th[0].readings = <<>>))

\* the file kept growing, and the call returned false after
\* ceil(60 / 40) = 2 polls, 80 seconds after its start
C18_Witness ==
    /\ Returned /\ ~th[0].ret /\ NeverRemoved
    /\ th[0].wait_sec = 40 /\ th[0].timeout = 60
    /\ th[0].polls = 2 /\ th[0].elapsed = 80
    /\ th[0].readings = <<0, 1, 2>>

\* C18: wait_until_stable terminates and fails on timeout as above, and it
\* never returns false when the counter has reached `checks`.
C18_NeverFalseAtChecks ==
    /\ <>Returned
    /\ [](/\ TimeoutRule
          /\ (Returned /\ th[0].stable >= th[0].checks) => th[0].ret)

---------------------------------------------------------------------------
(* SpecCall: one call move_file(path, config) on a file that is written to *)
(* or removed by another process while the call waits for it to be stable  *)

CallConfigs ==
    { LoadConfig([dry_run |-> d, wait_for_stable_seconds |-> w, stable_checks |-> c]) :
        d \in BOOLEAN, w \in {1, 200}, c \in 1..MaxChecks }

InitCall ==
    /\ \E size \in 0..1, taken \in BOOLEAN :
          fs = IF taken
               THEN Tree({ [path |-> StablePath, node |-> FileNode(1, size, 2, 1)],
                           [path |-> <<Images, Strftime(DefaultConfig.date_format, 2), NameA>>,
                            node |-> FileNode(2, 0, 2, 1)] })
               ELSE Tree({ [path |-> StablePath, node |-> FileNode(1, size, 2, 1)] })
    /\ config \in CallConfigs
    /\ th = [t \in Threads |-> IF t = 0 THEN StartCall(StablePath) ELSE IdleThread]
    /\ walk = NoWalk
    /\ events = NoEvents
    /\ log = <<>>
    /\ hist = [NoHist EXCEPT !.fs0 = fs, !.entry = fs]

NextCall ==
    \/ MoveFileStep(0)
    \/ (Waiting /\ EnvWrite(StablePath))
    \/ (Waiting /\ EnvDelete(StablePath))

SpecCall == InitCall /\ [][NextCall]_vars

\* how many of the latest readings equal the reading before them
TrailingRun(r) ==
    Cardinality({k \in 2..Len(r) : \A j \in k..Len(r) : r[j] = r[j - 1]})

\* the steps of move_file after the stability wait
AfterStable == {"classify", "makedirs", "probe", "dry_run", "move"}

\* C17: move_file classifies, plans or moves a file only after
\* wait_until_stable returned true; the counter of wait_until_stable is the
\* number of latest polls that each read the size read before it (a differing
\* reading resets it), so true is returned only after `checks` such polls;
\* and when false is returned the call ends as a skip that has created,
\* moved and renamed nothing.
C17_MovedOnlyWhenStable ==
    /\ th[0].stages \cap AfterStable # {} => th[0].ret
    /\ th[0].pc = "stable_loop" => th[0].stable = TrailingRun(th[0].readings)
    /\ th[0].ret =>
          /\ TrailingRun(th[0].readings) >= th[0].checks
          /\ Len(th[0].readings) >= th[0].checks + 1
    /\ (Returned /\ ~th[0].ret) =>
          /\ th[0].pc = "done" /\ th[0].outcome = "unstable"
          /\ hist.moves = <<>> /\ hist.mkdirs = {}
          /\ \A p \in DOMAIN fs : p \in DOMAIN hist.fs0 /\ fs[p].id = hist.fs0[p].id
          /\ (\A e \in hist.env : e.what # "delete") => IsFile(fs, th[0].file_path)

\* the file was written to during the wait, the counter started again, and
\* the file was moved after the next `checks` polls read one size
C17_Witness ==
    /\ th[0].pc = "done" /\ th[0].outcome = "moved"
    /\ th[0].checks = 2
    /\ Len(th[0].readings) > th[0].checks + 1
    /\ \E e \in hist.env : e.what = "write" /\ e.stable = 1

---------------------------------------------------------------------------
(* SpecWatch: python organizer.py --watch.  Files appear in the watched    *)
(* tree, the observer thread calls on_created for each creation event, and *)
(* on_created starts one thread per event that is not dropped              *)

\* a file appears at path p; the observer queues its creation event
EnvCreate(p) ==
    /\ hist.created < MaxWorkers
    /\ ~Exists(fs, p)
    /\ IsDir(fs, Dirname(p))
    /\ fs' = With(fs, p, FileNode(hist.created + 1, 0, 2, 1))
    /\ events' = IF Watched(p)
                 THEN [events EXCEPT !.queue =
                         Append(@, [src_path |-> p, is_directory |-> FALSE])]
                 ELSE events
    /\ hist' = [hist EXCEPT !.created = @ + 1]
    /\ UNCHANGED <<config, th, walk, log>>

\* `for pat in exclude_patterns: if re.search(pat, os.path.basename(path))`
Excluded(path, cfg) ==
    \E k \in 1..Len(cfg.exclude_patterns) :
       ReSearch(cfg.exclude_patterns[k], Basename(path))

\* on_created: `if event.is_directory: return`
OnCreatedDirectory ==
    /\ events.queue # <<>>
    /\ Head(events.queue).is_directory
    /\ events' = [events EXCEPT !.queue = Tail(@)]
    /\ UNCHANGED <<fs, config, th, walk, log, hist>>

\* on_created: the event is dropped by an exclude pattern
OnCreatedExcluded ==
    /\ events.queue # <<>>
    /\ ~Head(events.queue).is_directory
    /\ Excluded(Head(events.queue).src_path, config)
    /\ events' = [events EXCEPT !.queue = Tail(@)]
    /\ log' = Emit(log, "INFO", "excluded", Head(events.queue).src_path)
    /\ UNCHANGED <<fs, config, th, walk, hist>>

\* the mutant of OnCreatedSpawn that joins the running workers first
OnCreatedSpawnJoin ==
    /\ events.queue # <<>>
    /\ ~Head(events.queue).is_directory
    /\ ~Excluded(Head(events.queue).src_path, config)
    /\ \A u \in 1..MaxWorkers : th[u].pc \in {"idle", "done", "raised"}
    /\ \E t \in 1..MaxWorkers :
          /\ th[t].pc = "idle"
          /\ \A u \in 1..(t - 1) : th[u].pc # "idle"
          /\ th' = [th EXCEPT ![t] = StartCall(Head(events.queue).src_path)]
    /\ events' = [events EXCEPT !.queue = Tail(@)]
    /\ UNCHANGED <<fs, config, walk, log, hist>>

\* on_created: threading.Thread(target=move_file, args=(path, config)).start()
OnCreatedSpawn ==
    /\ events.queue # <<>>
    /\ ~Head(events.queue).is_directory
    /\ ~Excluded(Head(events.queue).src_path, config)
    /\ \E t \in 1..MaxWorkers :
          /\ th[t].pc = "idle"
          /\ \A u \in 1..(t - 1) : th[u].pc # "idle"
          /\ th' = [th EXCEPT ![t] = StartCall(Head(events.queue).src_path)]
    /\ events' = [events EXCEPT !.queue = Tail(@)]
    /\ UNCHANGED <<fs, config, walk, log, hist>>

\* where files appear in the model
WatchPool == { <<NameA>>, <<SubS, NameA>> }

WatchConfigs ==
    { LoadConfig([recursive |-> r, dry_run |-> d, exclude_patterns |-> x,
                  stable_checks |-> 1]) :
        r \in BOOLEAN, d \in BOOLEAN, x \in { <<>>, << <<"a",".">> >> } }

InitWatch ==
    /\ fs = With(EmptyFs, <<SubS>>, DirNode)
    /\ config \in WatchConfigs
    /\ th = [t \in Threads |-> IdleThread]
    /\ walk = NoWalk
    /\ events = [watching |-> TRUE, queue |-> <<>>]
    /\ log = <<>>
    /\ hist = [NoHist EXCEPT !.fs0 = fs, !.entry = fs]

NextWatch ==
    \/ \E p \in WatchPool : EnvCreate(p)
    \/ \E p \in WatchPool : EnvDelete(p)
    \/ OnCreatedDirectory
    \/ OnCreatedExcluded
    \/ OnCreatedSpawn
    \/ \E t \in 1..MaxWorkers : MoveFileStep(t)

SpecWatch == InitWatch /\ [][NextWatch]_vars

\* C2: in live-watch mode no interleaving of the workers replaces a file: the
\* destination a worker hands to shutil.move does not exist at that moment.
C2_WatchNeverOverwrites ==
    /\ \A k \in MoveIndices : ~hist.moves[k].existed
    /\ hist.lost = {}

\* thread t is inside move_file
Active(t) == th[t].pc \notin {"idle", "done", "raised"}

\* C14: in live-watch mode no two workers are inside move_file for the same
\* path at the same time.
C14_OneWorkerPerPath ==
    \A t, u \in 1..MaxWorkers :
       (t # u /\ Active(t) /\ Active(u)) => th[t].file_path # th[u].file_path

---------------------------------------------------------------------------
(* SpecDispatch: the watcher with an observer thread that delivers every   *)
(* queued event to on_created; nothing is assumed about the workers, which *)
(* may stay in their stability wait for ever                               *)

\* the observer thread is running: a queued event is handed to on_created
ObserverStep == OnCreatedDirectory \/ OnCreatedExcluded \/ OnCreatedSpawn

\* files appear and are never removed by anyone but the workers
NextDispatch ==
    \/ \E p \in WatchPool : EnvCreate(p)
    \/ OnCreatedDirectory
    \/ OnCreatedExcluded
    \/ OnCreatedSpawn
    \/ \E t \in 1..MaxWorkers : MoveFileStep(t)

SpecDispatch == InitWatch /\ [][NextDispatch]_vars /\ WF_vars(ObserverStep)

\* the threads on_created has started so far
Started == {t \in 1..MaxWorkers : th[t].pc # "idle"}

\* the event on_created is called with next is one it starts a worker for
HeadNeedsWorker ==
    /\ events.queue # <<>>
    /\ ~Head(events.queue).is_directory
    /\ ~Excluded(Head(events.queue).src_path, config)

\* C13: on_created never waits on a worker: whatever the workers do (also when
\* one stays in its stability wait and never takes another step), a creation
\* event of a file that is not excluded gets a worker of its own, and the
\* queue of events is emptied again and again.
C13_DispatchNeverWaits ==
    /\ \A n \in 0..MaxWorkers :
          (HeadNeedsWorker /\ Cardinality(Started) = n)
             ~> (Cardinality(Started) > n)
    /\ []<>(events.queue = <<>>)

\* a second worker was started while the first was in its stability wait
C13_Witness ==
    /\ th[1].pc = "stable_loop"
    /\ th[2].pc = "guards"

---------------------------------------------------------------------------
(* SpecWorkers: the watcher under fair scheduling: the observer thread and *)
(* every started worker keep taking steps                                  *)

SpecWorkers ==
    /\ InitWatch
    /\ [][NextDispatch]_vars
    /\ WF_vars(ObserverStep)
    /\ \A t \in 1..MaxWorkers : WF_vars(MoveFileStep(t))

\* thread t is inside unique_destination
Probing(t) == th[t].pc \in {"probe_first", "probe_next"}

====
